---- MODULE Spec2Model ----
(***************************************************************************)
(* A model of the statement compiler of package dbr: InsertStmt            *)
(* (src/go/dbr/insert.go) with its chunked ExecContext loop, and           *)
(* UpdateStmt (src/go/dbr/update.go).                                      *)
(*                                                                         *)
(* SQL text is a sequence of tokens (literal fragments, quoted             *)
(* identifiers, placeholders), so that the text written by Build can be    *)
(* compared, counted and split into clauses.                               *)
(***************************************************************************)
EXTENDS Integers, Sequences, FiniteSets, TLC

(***************************************************************************)
(* Bounds of the model.                                                    *)
(***************************************************************************)
MaxRows == 3
MaxCols == 2
MaxSent == 4
MaxBuilds == 4
MaxConds == 2
\* The bits of the model's int64 and uint64 (TLC's integers have 32).
IntBits == 8

\* Build's default batch cap, insert.go:29.
DefaultRunLen == 1000

\* Go's nil interface value, what kv[col] gives for a missing key
\* (insert.go:198).
NilVal == 0
\* The batch caps SetRunLen is called with (it takes any int).
RunLens == {-1, 0, 1, 2}

(***************************************************************************)
(* Tokens of SQL text.                                                     *)
(***************************************************************************)
Lit(s) == [k |-> "lit", v |-> s]
\* Dialect.QuoteIdent: the identifier wrapped by the dialect's quotes.
QuoteIdent(s) == [k |-> "ident", v |-> s]
\* The placeholder token "?".
placeholder == [k |-> "ph", v |-> "?"]

Min(a, b) == IF a < b THEN a ELSE b
Max(a, b) == IF a > b THEN a ELSE b

\* s[from+1 .. to] as Go's s[from:to].
Slice(s, from, to) == [i \in 1..Max(to - from, 0) |-> s[from + i]]

RECURSIVE Flatten(_)
\* The values of the rows, row after row.
Flatten(rows) ==
    IF rows = <<>> THEN <<>> ELSE Head(rows) \o Flatten(Tail(rows))

RECURSIVE CountPH(_)
\* The number of placeholder tokens of a text.
CountPH(text) ==
    IF text = <<>> THEN 0
    ELSE (IF Head(text) = placeholder THEN 1 ELSE 0) + CountPH(Tail(text))

VARIABLES
    \* InsertStmt's fields (insert.go:11-22)
    Table, Column, Value, RunLen, ReturnColumn, RecordID, rawQuery, rawValue,
    \* the caller's struct field RecordID points to
    idField,
    \* the buffer of the caller's latest Build call and the error it returned
    bufText, bufArgs, buildErr,
    \* ExecContext: position, its locals result and err, what it returned
    pc, result, ret,
    \* the statements handed to the runner by the latest ExecContext, each
    \* with the runner's answer
    sent,
    \* a panic that ended the program
    panicked,
    \* history: the pending rows at the latest configuration call, the Build
    \* calls made since, the pending rows when ExecContext was entered, how
    \* often ExecContext wrote idField, the statement before the latest Build
    orig, nbuilt, execOrig, idWrites, pre,
    \* what the latest GetSQL call returned, and history: the GetSQL calls
    \* made one after another, what the one before the latest returned, the
    \* statement's fields before the first of them
    sql, ngets, prevSql, getPre,
    \* history: the ExecContext that failed before the one that resumed it
    prevExec

getVars == <<sql, ngets, prevSql, getPre>>

insertVars == <<Table, Column, Value, RunLen, ReturnColumn, RecordID, rawQuery,
                rawValue, idField, bufText, bufArgs, buildErr, pc, result, ret,
                sent, panicked, orig, nbuilt, execOrig, idWrites, pre,
                getVars, prevExec>>

VARIABLES
    \* UpdateStmt's fields (update.go:10-21): Table, raw, Value, WhereCond,
    \* LimitCount
    updTable, updRaw, updValue, WhereCond, LimitCount,
    \* what the latest Build, GetSQL or ExecContext call on the UpdateStmt left:
    \* the call, the buffer's text and arguments, the error returned, whether
    \* it panicked, whether the runner was handed the statement
    updOut,
    \* history: the argument of the latest Limit call
    limitN

updVars == <<updTable, updRaw, updValue, WhereCond, LimitCount, updOut,
             limitN>>

VARIABLES
    \* the package variables of the event receiver (part_000:28-31)
    showSQLLevel, logPrintFunc,
    \* what the latest call on the NullEventReceiver left: the lines written
    \* to standard output and the lines handed to logPrintFunc (each with the
    \* function that was called), and the call with the error it was given
    \* and the error it returned
    stdout, printed, call

rcvVars == <<showSQLLevel, logPrintFunc, stdout, printed, call>>

VARIABLES
    \* two goroutines calling ExecContext on one InsertStmt: the position of
    \* each, and the locals of its Build call (the rows it read, the text and
    \* the arguments it compiled, its runnum)
    cpc, built,
    \* history: the rows pending before the first call, whether the two
    \* calls were ever inside ExecContext at the same time
    conOrig, overlapped

conVars == <<cpc, built, conOrig, overlapped>>

\* What is neither part of an InsertStmt nor of an UpdateStmt.
otherVars == <<rcvVars, conVars>>

vars == <<insertVars, updVars, otherVars>>

\* Go's nil func value.
NilFunc == "nil"

NoCall == [method |-> "none", err |-> "none", ret |-> "none"]

\* The goroutines that call ExecContext on the same statement.
Procs == {1, 2}

NoBuilt == [read |-> <<>>, text |-> <<>>, args |-> <<>>, runnum |-> 0]

\* No goroutine has called ExecContext.
NoConcurrent ==
    /\ cpc = [p \in Procs |-> "idle"]
    /\ built = [p \in Procs |-> NoBuilt]
    /\ conOrig = <<>>
    /\ overlapped = FALSE

\* The package variables at their zero values, before any call.
ReceiverZero ==
    /\ showSQLLevel = 0
    /\ logPrintFunc = NilFunc
    /\ stdout = <<>>
    /\ printed = <<>>
    /\ call = NoCall

(***************************************************************************)
(* InsertStmt.Build, insert.go:26-88, as operators of the statement's      *)
(* current fields.                                                         *)
(***************************************************************************)
NilPtr == "nil"
Bound == "bound"
NoError == "nil"
ErrTableNotSpecified == "ErrTableNotSpecified"
ErrColumnNotSpecified == "ErrColumnNotSpecified"
ErrRunner == "ErrRunner"

\* insert.go:28-30: a zero RunLen becomes the default cap.
EffRunLen == IF RunLen = 0 THEN DefaultRunLen ELSE RunLen

\* raw.Build: the raw text and its arguments, verbatim.
RawBuildText == rawQuery
RawBuildArgs == rawValue

\* The two checks in the other order.
BuildErr_ColumnFirst ==
    IF rawQuery # <<>> THEN NoError
    ELSE IF Len(Column) = 0 THEN ErrColumnNotSpecified
    ELSE IF Table = "" THEN ErrTableNotSpecified
    ELSE NoError

\* insert.go:31-41: the error Build returns.
BuildErr ==
    IF rawQuery # <<>> THEN NoError
    ELSE IF Table = "" THEN ErrTableNotSpecified
    ELSE IF Len(Column) = 0 THEN ErrColumnNotSpecified
    ELSE NoError

\* Build reaches the INSERT compilation of insert.go:43-85.
Compiles == rawQuery = <<>> /\ BuildErr = NoError

RECURSIVE QuotedList(_)
\* insert.go:49-56 and 79-84: the quoted names joined by ",".
QuotedList(cols) ==
    IF cols = <<>> THEN <<>>
    ELSE IF Len(cols) = 1 THEN <<QuoteIdent(cols[1])>>
    ELSE <<QuoteIdent(cols[1]), Lit(",")>> \o QuotedList(Tail(cols))

RECURSIVE PlaceholderList(_)
\* insert.go:49-56: one placeholder per column joined by ",".
PlaceholderList(n) ==
    IF n = 0 THEN <<>>
    ELSE IF n = 1 THEN <<placeholder>>
    ELSE <<placeholder, Lit(",")>> \o PlaceholderList(n - 1)

\* The placeholder of the first column is left out, as if written under the
\* i > 0 test of the separator.
placeholderStr_SkipFirst ==
    <<Lit("(")>> \o PlaceholderList(Len(Column) - 1) \o <<Lit(")")>>

\* insert.go:46-59: "(?,?)" for the statement's columns.
placeholderStr == <<Lit("(")>> \o PlaceholderList(Len(Column)) \o <<Lit(")")>>

\* The loop without its break: every pending row is emitted.
runnum_NoCap == Len(Value)

\* insert.go:60-74: the number of rows the loop emits before it breaks.
runnum == IF EffRunLen <= 0 THEN 0 ELSE Min(Len(Value), EffRunLen)

RECURSIVE RowGroups(_)
\* insert.go:61-74: one placeholder group per emitted row joined by ", ".
RowGroups(n) ==
    IF n = 0 THEN <<>>
    ELSE IF n = 1 THEN placeholderStr
    ELSE placeholderStr \o <<Lit(", ")>> \o RowGroups(n - 1)

\* insert.go:43-57: INSERT INTO "t" ("a","b") VALUES
InsertHead ==
    <<Lit("INSERT INTO "), QuoteIdent(Table), Lit(" (")>>
        \o QuotedList(Column) \o <<Lit(") VALUES ")>>

\* The clause is written only by the call that compiles the last pending row.
ReturningClause_LastOnly ==
    IF Len(ReturnColumn) > 0 /\ runnum = Len(Value)
    THEN <<Lit(" RETURNING ")>> \o QuotedList(ReturnColumn)
    ELSE <<>>

\* insert.go:77-85: the RETURNING clause, when columns are configured.
ReturningClause ==
    IF Len(ReturnColumn) > 0
    THEN <<Lit(" RETURNING ")>> \o QuotedList(ReturnColumn)
    ELSE <<>>

\* The text Build writes to the buffer.
BuildText ==
    IF rawQuery # <<>> THEN RawBuildText
    ELSE IF BuildErr # NoError THEN <<>>
    ELSE InsertHead \o RowGroups(runnum) \o ReturningClause

\* WriteValue called before the cap is tested: the values of the row at
\* which the loop breaks are appended too.
BuildArgs_BeforeBreak ==
    IF rawQuery # <<>> THEN RawBuildArgs
    ELSE IF BuildErr # NoError THEN <<>>
    ELSE Flatten(Slice(Value, 0, Min(runnum + 1, Len(Value))))

\* insert.go:73: the values Build appends to the buffer.
BuildArgs ==
    IF rawQuery # <<>> THEN RawBuildArgs
    ELSE IF BuildErr # NoError THEN <<>>
    ELSE Flatten(Slice(Value, 0, runnum))

\* The cut takes one row less than the loop emitted.
ValueAfterBuild_OneLess ==
    IF Compiles THEN Slice(Value, Max(runnum - 1, 0), Len(Value)) ELSE Value

\* insert.go:76: the pending rows after Build.
ValueAfterBuild ==
    IF Compiles THEN Slice(Value, runnum, Len(Value)) ELSE Value

(***************************************************************************)
(* The statement after construction.                                       *)
(***************************************************************************)
\* The raw statement InsertBySql is called with.
RawQueries == {<<Lit("INSERT INTO t VALUES ("), placeholder, Lit(")")>>}
RawValues == {<<1>>}

NoResult == [n |-> 0, id |-> 0]
NoRet == [result |-> NoResult, err |-> "none"]
\* LastInsertId returned an error.
NoId == 0 - 1
\* The generated id the backend reports for the n-th statement it runs.
FirstId == 7
GeneratedId(n) == FirstId + n - 1

\* No ExecContext was resumed.
NoPrev == [orig |-> <<>>, sent |-> <<>>, err |-> "none"]

\* GetSQL has not returned anything.
NoSql == [text |-> <<>>, args |-> <<>>, err |-> "none"]
NoFields == [Value |-> <<>>, Column |-> <<>>, RecordID |-> NilPtr, RunLen |-> 0]

\* What InsertInto and InsertBySql leave at Go's zero value, and the rest of
\* the program before any call.
InsertZero ==
    /\ prevExec = NoPrev
    /\ sql = NoSql
    /\ ngets = 0
    /\ prevSql = NoSql
    /\ getPre = NoFields
    /\ Column = <<>>
    /\ Value = <<>>
    /\ RunLen = 0
    /\ ReturnColumn = <<>>
    /\ RecordID = NilPtr
    /\ idField = 0
    /\ bufText = <<>>
    /\ bufArgs = <<>>
    /\ buildErr = "none"
    /\ pc = "idle"
    /\ result = NoResult
    /\ ret = NoRet
    /\ sent = <<>>
    /\ panicked = FALSE
    /\ orig = <<>>
    /\ nbuilt = 0
    /\ execOrig = <<>>
    /\ idWrites = 0
    /\ pre = <<>>

\* insert.go:91-95
InsertInto ==
    /\ Table \in {"", "users"}
    /\ rawQuery = <<>>
    /\ rawValue = <<>>
    /\ InsertZero

\* insert.go:116-123
InsertBySql ==
    /\ Table = ""
    /\ rawQuery \in RawQueries
    /\ rawValue \in RawValues
    /\ InsertZero

\* Limit was never called.
NeverLimited == 0 - 1

\* No UpdateStmt has been made.
UpdateIdle ==
    /\ limitN = NeverLimited
    /\ updTable = ""
    /\ updRaw = <<>>
    /\ updValue = <<>>
    /\ WhereCond = <<>>
    /\ LimitCount = 0
    /\ updOut = [call |-> "none", err |-> "none", text |-> <<>>,
                 args |-> <<>>, panic |-> FALSE, sent |-> FALSE]

InitInsert ==
    (InsertInto \/ InsertBySql) /\ UpdateIdle /\ ReceiverZero /\ NoConcurrent

(***************************************************************************)
(* What the latest call left for its caller to see. A call replaces what   *)
(* the call before it left.                                                *)
(***************************************************************************)
NoBuildSeen ==
    /\ bufText' = <<>>
    /\ bufArgs' = <<>>
    /\ buildErr' = "none"
    /\ pre' = <<>>
    /\ orig' = <<>>
    /\ nbuilt' = 0

NoGetSeen ==
    /\ sql' = NoSql
    /\ ngets' = 0
    /\ prevSql' = NoSql
    /\ getPre' = NoFields

NoExecSeen ==
    /\ prevExec' = NoPrev
    /\ result' = NoResult
    /\ ret' = NoRet
    /\ sent' = <<>>
    /\ execOrig' = <<>>
    /\ idWrites' = 0

(***************************************************************************)
(* Configuration calls. Each is made by the caller between executions.     *)
(***************************************************************************)
CanCall == pc = "idle" /\ ~panicked

Configured ==
    /\ NoBuildSeen
    /\ NoExecSeen
    /\ NoGetSeen
    /\ UNCHANGED <<Table, rawQuery, rawValue, idField, pc, panicked>>
    /\ UNCHANGED <<updVars, otherVars>>

\* The column lists Columns is called with.
ColumnLists == {<<>>, <<"name">>, <<"name", "age">>}

\* insert.go:143-146
Columns ==
    /\ CanCall
    /\ \E column \in ColumnLists : Column' = column
    /\ UNCHANGED <<Value, RunLen, ReturnColumn, RecordID>>
    /\ Configured

\* The tuples Values is called with.
ValueRows == {<<1>>, <<2>>, <<1, 2>>}

\* insert.go:150-153
Values ==
    /\ CanCall
    /\ Len(Value) < MaxRows
    /\ \E value \in ValueRows : Value' = Append(Value, value)
    /\ UNCHANGED <<Column, RunLen, ReturnColumn, RecordID>>
    /\ Configured

\* The map Map and the struct Record are called with: key or field name to
\* value.
KV == [c \in {"name", "age"} |-> IF c = "name" THEN 1 ELSE 2]

\* The orders Go's range visits the keys of kv in.
KeyOrders(kv) ==
    {o \in [1..Cardinality(DOMAIN kv) -> DOMAIN kv] :
        \A i, j \in DOMAIN o : i # j => o[i] # o[j]}

\* kv[col], nil when the key is missing.
Lookup(kv, col) == IF col \in DOMAIN kv THEN kv[col] ELSE NilVal

\* insert.go:159-186: the struct's fields are looked up by column name; an
\* addressable int64 field "id" becomes RecordID.
Record ==
    /\ CanCall
    /\ Len(Value) < MaxRows
    /\ \E hasID \in BOOLEAN :
        RecordID' = IF hasID THEN Bound ELSE RecordID
    /\ Value' = Append(Value, [i \in 1..Len(Column) |-> Lookup(KV, Column[i])])
    /\ UNCHANGED <<Column, RunLen, ReturnColumn>>
    /\ Configured

\* insert.go:189-204
Map ==
    /\ CanCall
    /\ Len(Value) < MaxRows
    /\ IF Len(Column) = 0
       THEN \E o \in KeyOrders(KV) :
               /\ Column' = o
               /\ Value' = Append(Value, [i \in 1..Len(o) |-> KV[o[i]]])
       ELSE /\ Column' = Column
            /\ Value' = Append(Value, [i \in 1..Len(Column) |->
                                          Lookup(KV, Column[i])])
    /\ UNCHANGED <<RunLen, ReturnColumn, RecordID>>
    /\ Configured

\* The column lists Returning is called with.
ReturnLists == {<<>>, <<"name", "id">>}

\* insert.go:207-210
Returning ==
    /\ CanCall
    /\ \E column \in ReturnLists : ReturnColumn' = column
    /\ UNCHANGED <<Column, Value, RunLen, RecordID>>
    /\ Configured

\* The (column, value) pairs Pair is called with: a column the statement
\* does not have yet.
Pairs == {p \in {<<"name", 1>>, <<"age", 2>>} :
            \A i \in DOMAIN Column : Column[i] # p[1]}

\* insert.go:214-225, the cases 0 and 1 of the switch.
Pair ==
    /\ CanCall
    /\ Len(Column) < MaxCols
    /\ Len(Value) <= 1
    /\ Len(Value) = 1 => Len(Value[1]) < MaxCols
    /\ \E p \in Pairs :
        /\ Column' = Append(Column, p[1])
        /\ Value' = IF Len(Value) = 0 THEN <<<<p[2]>>>>
                    ELSE <<Append(Value[1], p[2])>>
    /\ UNCHANGED <<RunLen, ReturnColumn, RecordID>>
    /\ Configured

\* insert.go:214-225, the default case: the column is appended, then Pair
\* panics.
PairPanic ==
    /\ CanCall
    /\ Len(Column) < MaxCols
    /\ Len(Value) > 1
    /\ \E p \in Pairs : Column' = Append(Column, p[1])
    /\ panicked' = TRUE
    /\ NoBuildSeen
    /\ NoExecSeen
    /\ NoGetSeen
    /\ UNCHANGED <<Table, Value, RunLen, ReturnColumn, RecordID, rawQuery,
                   rawValue, idField, pc>>
    /\ UNCHANGED <<updVars, otherVars>>

\* insert.go:238-242
SetRunLen ==
    /\ CanCall
    /\ \E i \in RunLens : RunLen' = i
    /\ UNCHANGED <<Column, Value, ReturnColumn, RecordID>>
    /\ Configured

(***************************************************************************)
(* Build called by the caller with a new buffer.                           *)
(***************************************************************************)
\* insert.go:26-88
Build ==
    /\ CanCall
    /\ nbuilt < MaxBuilds
    /\ bufText' = BuildText
    /\ bufArgs' = BuildArgs
    /\ buildErr' = BuildErr
    /\ RunLen' = EffRunLen
    /\ Value' = ValueAfterBuild
    /\ pre' = Value
    /\ orig' = IF nbuilt = 0 THEN Value ELSE orig
    /\ nbuilt' = nbuilt + 1
    /\ NoExecSeen
    /\ NoGetSeen
    /\ UNCHANGED <<Table, Column, ReturnColumn, RecordID, rawQuery, rawValue,
                   idField, pc, panicked>>
    /\ UNCHANGED <<updVars, otherVars>>

(***************************************************************************)
(* ExecContext, insert.go:244-261, one step per pass of its loop.          *)
(***************************************************************************)
\* insert.go:245-246: ExecContext is entered, err and result are nil.
ExecStart ==
    /\ CanCall
    /\ pc' = "loop"
    /\ result' = NoResult
    /\ ret' = NoRet
    /\ sent' = <<>>
    /\ execOrig' = Value
    /\ idWrites' = 0
    /\ NoBuildSeen
    /\ UNCHANGED <<Table, Column, Value, RunLen, ReturnColumn, RecordID,
                   rawQuery, rawValue, idField, panicked>>
    /\ IF ret = NoRet THEN UNCHANGED getVars ELSE NoGetSeen
    /\ prevExec' = NoPrev
    /\ UNCHANGED <<updVars, otherVars>>

\* exec: the statement is compiled into a new buffer; a compile error is
\* returned without calling the runner.
ExecCompileFails ==
    /\ pc = "loop"
    /\ Len(Value) > 0
    /\ BuildErr # NoError
    /\ RunLen' = EffRunLen
    /\ Value' = ValueAfterBuild
    /\ ret' = [result |-> NoResult, err |-> BuildErr]
    /\ pc' = "idle"
    /\ UNCHANGED <<Table, Column, ReturnColumn, RecordID, rawQuery, rawValue,
                   idField, bufText, bufArgs, buildErr, result, sent, panicked,
                   orig, nbuilt, execOrig, idWrites, pre>>
    /\ UNCHANGED <<getVars, prevExec>>
    /\ UNCHANGED <<updVars, otherVars>>

\* Without the return of insert.go:250-252 the loop ends on err != nil and
\* insert.go:260 returns a nil error.
ExecRunnerFails_Swallowed ==
    /\ pc = "loop"
    /\ Len(Value) > 0
    /\ Len(sent) < MaxSent
    /\ BuildErr = NoError
    /\ sent' = Append(sent, [text |-> BuildText, args |-> BuildArgs,
                              ok |-> FALSE])
    /\ RunLen' = EffRunLen
    /\ Value' = ValueAfterBuild
    /\ ret' = [result |-> NoResult, err |-> NoError]
    /\ pc' = "idle"
    /\ UNCHANGED <<Table, Column, ReturnColumn, RecordID, rawQuery, rawValue,
                   idField, bufText, bufArgs, buildErr, result, panicked,
                   orig, nbuilt, execOrig, idWrites, pre>>
    /\ UNCHANGED <<getVars, prevExec>>
    /\ UNCHANGED <<updVars, otherVars>>

\* The rows of the chunk the runner failed on are put back.
ValueAfterFailure_PutBack == Value

\* The pending rows after a chunk the runner failed on: Build cut them
\* (insert.go:76) before the runner was called, and insert.go:250-252 return
\* without touching them.
ValueAfterFailure == ValueAfterBuild

\* insert.go:249-252: the compiled chunk is handed to the runner, which
\* fails; ExecContext returns the error.
ExecRunnerFails ==
    /\ pc = "loop"
    /\ Len(Value) > 0
    /\ Len(sent) < MaxSent
    /\ BuildErr = NoError
    /\ sent' = Append(sent, [text |-> BuildText, args |-> BuildArgs,
                              ok |-> FALSE])
    /\ RunLen' = EffRunLen
    /\ Value' = ValueAfterFailure
    /\ ret' = [result |-> NoResult, err |-> ErrRunner]
    /\ pc' = "idle"
    /\ UNCHANGED <<Table, Column, ReturnColumn, RecordID, rawQuery, rawValue,
                   idField, bufText, bufArgs, buildErr, result, panicked,
                   orig, nbuilt, execOrig, idWrites, pre>>
    /\ UNCHANGED <<getVars, prevExec>>
    /\ UNCHANGED <<updVars, otherVars>>

\* insert.go:253-258: what a successful chunk does to the bound slot.
SlotAfter(id) == IF RecordID # NilPtr /\ id # NoId THEN id ELSE idField
WritesAfter(id) ==
    IF RecordID # NilPtr /\ id # NoId THEN idWrites + 1 ELSE idWrites
\* The binding is not cleared.
RecordIDAfter_Kept == RecordID
RecordIDAfter == NilPtr

\* insert.go:249-258: the compiled chunk is handed to the runner, which
\* succeeds; LastInsertId gives the generated id or an error.
ExecChunk ==
    /\ pc = "loop"
    /\ Len(Value) > 0
    /\ Len(sent) < MaxSent
    /\ BuildErr = NoError
    /\ sent' = Append(sent, [text |-> BuildText, args |-> BuildArgs,
                              ok |-> TRUE])
    /\ RunLen' = EffRunLen
    /\ Value' = ValueAfterBuild
    /\ \E id \in {GeneratedId(Len(sent) + 1), NoId} :
        /\ result' = [n |-> Len(sent) + 1, id |-> id]
        /\ idField' = SlotAfter(id)
        /\ idWrites' = WritesAfter(id)
    /\ RecordID' = RecordIDAfter
    /\ UNCHANGED <<Table, Column, ReturnColumn, rawQuery, rawValue, bufText,
                   bufArgs, buildErr, pc, ret, panicked, orig, nbuilt,
                   execOrig, pre>>
    /\ UNCHANGED <<getVars, prevExec>>
    /\ UNCHANGED <<updVars, otherVars>>

\* insert.go:247 and 260: no row is pending, ExecContext returns result.
ExecReturn ==
    /\ pc = "loop"
    /\ Len(Value) = 0
    /\ ret' = [result |-> result, err |-> NoError]
    /\ pc' = "idle"
    /\ UNCHANGED <<Table, Column, Value, RunLen, ReturnColumn, RecordID,
                   rawQuery, rawValue, idField, bufText, bufArgs, buildErr,
                   result, sent, panicked, orig, nbuilt, execOrig, idWrites,
                   pre>>
    /\ UNCHANGED <<getVars, prevExec>>
    /\ UNCHANGED <<updVars, otherVars>>

\* The caller sets columns, rows and the batch cap, and compiles the
\* statement.
NextBuild ==
    \/ Columns
    \/ Values
    \/ Record
    \/ Map
    \/ Pair
    \/ PairPanic
    \/ SetRunLen
    \/ Build

Spec == InitInsert /\ [][NextBuild]_vars

\* The caller sets columns, rows, the batch cap and the RETURNING columns,
\* and compiles the statement.
NextReturning ==
    \/ Columns
    \/ Values
    \/ Returning
    \/ SetRunLen
    \/ Build

SpecReturning == InitInsert /\ [][NextReturning]_vars

\* insert.go:245-246: ExecContext is entered again on the statement right
\* after it returned the runner's error.
ExecAgain ==
    /\ CanCall
    /\ ret.err = ErrRunner
    /\ prevExec = NoPrev
    /\ prevExec' = [orig |-> execOrig, sent |-> sent, err |-> ret.err]
    /\ pc' = "loop"
    /\ result' = NoResult
    /\ ret' = NoRet
    /\ sent' = <<>>
    /\ execOrig' = Value
    /\ idWrites' = 0
    /\ NoBuildSeen
    /\ NoGetSeen
    /\ UNCHANGED <<Table, Column, Value, RunLen, ReturnColumn, RecordID,
                   rawQuery, rawValue, idField, panicked>>
    /\ UNCHANGED <<updVars, otherVars>>

\* The caller configures the statement, executes it, and executes it again
\* after a failure.
NextResume ==
    \/ Columns
    \/ Values
    \/ SetRunLen
    \/ ExecStart
    \/ ExecAgain
    \/ ExecCompileFails
    \/ ExecRunnerFails
    \/ ExecChunk
    \/ ExecReturn

SpecResume == InitInsert /\ [][NextResume]_vars

\* The caller populates the statement through Pair only, and compiles and
\* executes it in between.
NextPair ==
    \/ Pair
    \/ SetRunLen
    \/ Build
    \/ ExecStart
    \/ ExecCompileFails
    \/ ExecRunnerFails
    \/ ExecChunk
    \/ ExecReturn

SpecPair == InitInsert /\ [][NextPair]_vars

\* The caller configures the statement, compiles it and executes it.
NextExec ==
    \/ Columns
    \/ Values
    \/ Record
    \/ SetRunLen
    \/ Build
    \/ ExecStart
    \/ ExecCompileFails
    \/ ExecRunnerFails
    \/ ExecChunk
    \/ ExecReturn

SpecExec == InitInsert /\ [][NextExec]_vars

(***************************************************************************)
(* GetSQL, insert.go:228-232.                                              *)
(***************************************************************************)
MaxGets == 2

\* The statement's fields GetSQL is claimed to leave alone.
Fields == [Value |-> Value, Column |-> Column, RecordID |-> RecordID,
           RunLen |-> RunLen]

\* getSQL: the statement is compiled into a new buffer; the text with its
\* values, or the error.
getSQL == [text |-> BuildText, args |-> BuildArgs, err |-> BuildErr]

\* Build runs on the statement itself.
ValueAfterGetSQL_NoCopy == ValueAfterBuild

\* insert.go:229-230: Build runs on the copy b1, whose RunLen and Value it
\* assigns; the statement keeps its own.
ValueAfterGetSQL == Value

\* The GetSQL calls made one after another up to now: none when ExecContext
\* was called since.
GetsInARow == IF ret = NoRet THEN ngets ELSE 0

\* insert.go:228-232
GetSQL ==
    /\ CanCall
    /\ GetsInARow < MaxGets
    /\ sql' = getSQL
    /\ prevSql' = IF GetsInARow = 0 THEN NoSql ELSE sql
    /\ ngets' = GetsInARow + 1
    /\ getPre' = IF GetsInARow = 0 THEN Fields ELSE getPre
    /\ Value' = ValueAfterGetSQL
    /\ NoBuildSeen
    /\ NoExecSeen
    /\ UNCHANGED <<Table, Column, RunLen, ReturnColumn, RecordID, rawQuery,
                   rawValue, idField, pc, panicked>>
    /\ UNCHANGED <<updVars, otherVars>>

\* The caller configures the statement, retrieves its SQL and executes it
\* with a runner that succeeds.
NextGetSQL ==
    \/ Columns
    \/ Values
    \/ Record
    \/ SetRunLen
    \/ GetSQL
    \/ ExecStart
    \/ ExecCompileFails
    \/ ExecChunk
    \/ ExecReturn

SpecGetSQL == InitInsert /\ [][NextGetSQL]_vars

(***************************************************************************)
(* UpdateStmt, update.go.                                                  *)
(***************************************************************************)
ErrCond == "ErrCond"
Num(n) == [k |-> "num", v |-> n]

\* int64(n) of update.go:161 at the model's width.
ToInt64(n) ==
    IF n >= 2 ^ (IntBits - 1) THEN n - 2 ^ IntBits ELSE n

\* The arguments Limit is called with: uint64 values.
LimitArgs == {0, 1, 2 ^ (IntBits - 1) - 1, 2 ^ (IntBits - 1), 2 ^ IntBits - 1}

\* The values Set is called with: a literal, a raw fragment, a raw fragment
\* whose Build returns an error.
SetValues ==
    {[kind |-> "lit", fails |-> FALSE],
     [kind |-> "raw", fails |-> FALSE],
     [kind |-> "raw", fails |-> TRUE]}
UpdColumns == {"age", "name"}

\* What Where is called with: a string (made an Expr), a Builder, a
\* Builder whose Build returns an error, a value of another type.
Queries ==
    {[kind |-> "expr", fails |-> FALSE],
     [kind |-> "builder", fails |-> FALSE],
     [kind |-> "builder", fails |-> TRUE],
     [kind |-> "other", fails |-> FALSE]}

NoOut == [call |-> "none", err |-> "none", text |-> <<>>, args |-> <<>>,
          panic |-> FALSE, sent |-> FALSE]

\* What Update and UpdateBySql leave: no condition, LimitCount -1.
UpdateZero ==
    /\ limitN = NeverLimited
    /\ updValue = <<>>
    /\ WhereCond = <<>>
    /\ LimitCount = 0 - 1
    /\ updOut = NoOut

\* No InsertStmt has been made.
InsertIdle ==
    /\ Table = ""
    /\ rawQuery = <<>>
    /\ rawValue = <<>>
    /\ InsertZero

\* update.go:78-84
Update ==
    /\ updTable \in {"", "users"}
    /\ updRaw = <<>>
    /\ UpdateZero

\* update.go:105-114
UpdateBySql ==
    /\ updTable = ""
    /\ updRaw = <<Lit("UPDATE t SET a = a + 1")>>
    /\ UpdateZero

InitUpdate ==
    (Update \/ UpdateBySql) /\ InsertIdle /\ ReceiverZero /\ NoConcurrent

\* The program runs: the latest call did not panic.
UpdCanCall == ~updOut.panic

\* update.go:147-150
Set ==
    /\ UpdCanCall
    /\ \E column \in UpdColumns, value \in SetValues :
        updValue' = [c \in (DOMAIN updValue) \cup {column} |->
                        IF c = column THEN value ELSE updValue[c]]
    /\ updOut' = NoOut
    /\ UNCHANGED <<updTable, updRaw, WhereCond, LimitCount, limitN>>
    /\ UNCHANGED <<insertVars, otherVars>>

\* update.go:136-144: a string or a Builder is appended, a value of
\* another type is dropped.
Where ==
    /\ UpdCanCall
    /\ Len(WhereCond) < MaxConds
    /\ \E query \in Queries :
        WhereCond' = IF query.kind \in {"expr", "builder"}
                     THEN Append(WhereCond, query)
                     ELSE WhereCond
    /\ updOut' = NoOut
    /\ UNCHANGED <<updTable, updRaw, updValue, LimitCount, limitN>>
    /\ UNCHANGED <<insertVars, otherVars>>

\* update.go:160-163
Limit ==
    /\ UpdCanCall
    /\ \E n \in LimitArgs :
        /\ LimitCount' = ToInt64(n)
        /\ limitN' = n
    /\ updOut' = NoOut
    /\ UNCHANGED <<updTable, updRaw, updValue, WhereCond>>
    /\ UNCHANGED <<insertVars, otherVars>>

\* The text and the argument a raw fragment or an Expr writes.
FragmentText == <<Lit("a + "), placeholder>>
FragmentArgs == <<1>>

RECURSIVE SetText(_)
\* update.go:43-57: "col" = ? or "col" = <fragment> for the columns in the
\* order o the map is visited in, joined by ", ". The error of a fragment's
\* Build is dropped at update.go:51.
SetText(o) ==
    IF o = <<>> THEN <<>>
    ELSE LET v == updValue[o[Len(o)]]
             front == SubSeq(o, 1, Len(o) - 1)
         IN  SetText(front)
                 \o (IF Len(o) > 1 THEN <<Lit(", ")>> ELSE <<>>)
                 \o <<QuoteIdent(o[Len(o)]), Lit(" = ")>>
                 \o (IF v.kind = "raw"
                     THEN (IF v.fails THEN <<>> ELSE FragmentText)
                     ELSE <<placeholder>>)

RECURSIVE SetArgs(_)
\* update.go:49-55: the values bound for the columns in the order o.
SetArgs(o) ==
    IF o = <<>> THEN <<>>
    ELSE LET v == updValue[o[Len(o)]]
         IN  SetArgs(SubSeq(o, 1, Len(o) - 1))
                 \o (IF v.kind = "raw"
                     THEN (IF v.fails THEN <<>> ELSE FragmentArgs)
                     ELSE <<5>>)

\* The conditions And compiles: those before the first one that fails.
CondsBuilt ==
    IF \E i \in 1..Len(WhereCond) : WhereCond[i].fails
    THEN (CHOOSE i \in 1..Len(WhereCond) :
            WhereCond[i].fails /\ \A j \in 1..(i - 1) : ~WhereCond[j].fails) - 1
    ELSE Len(WhereCond)

\* And(conds...).Build returns the error of the first condition that fails.
AndErr == IF CondsBuilt < Len(WhereCond) THEN ErrCond ELSE NoError

RECURSIVE AndJoined(_)
AndJoined(n) ==
    IF n = 0 THEN <<>>
    ELSE AndJoined(n - 1)
            \o (IF n > 1 THEN <<Lit(" AND ")>> ELSE <<>>) \o FragmentText

\* And(conds...).Build: the conditions joined by AND, in parentheses when
\* there are two or more; what was written before a failure stays.
AndText ==
    (IF Len(WhereCond) > 1 THEN <<Lit("(")>> ELSE <<>>)
        \o AndJoined(CondsBuilt)
        \o (IF CondsBuilt < Len(WhereCond) /\ CondsBuilt > 0
            THEN <<Lit(" AND ")>> ELSE <<>>)
        \o (IF Len(WhereCond) > 1 /\ AndErr = NoError THEN <<Lit(")")>> ELSE <<>>)

RECURSIVE AndArgs(_)
AndArgs(n) == IF n = 0 THEN <<>> ELSE AndArgs(n - 1) \o FragmentArgs

\* update.go:69-72
LimitText ==
    IF LimitCount >= 0 THEN <<Lit(" LIMIT "), Num(LimitCount)>> ELSE <<>>

\* update.go:25-75: what UpdateStmt.Build returns and leaves in the buffer
\* when the map is visited in the order o. Without a condition Build
\* panics at update.go:66, after the SET clause was written.
UpdBuild(o) ==
    IF updRaw # <<>>
    THEN [err |-> NoError, text |-> updRaw, args |-> <<>>, panic |-> FALSE]
    ELSE IF updTable = ""
    THEN [err |-> ErrTableNotSpecified, text |-> <<>>, args |-> <<>>,
          panic |-> FALSE]
    ELSE IF DOMAIN updValue = {}
    THEN [err |-> ErrColumnNotSpecified, text |-> <<>>, args |-> <<>>,
          panic |-> FALSE]
    ELSE LET head == <<Lit("UPDATE "), QuoteIdent(updTable), Lit(" SET ")>>
                         \o SetText(o)
         IN  IF Len(WhereCond) = 0
             THEN [err |-> "none", text |-> head, args |-> SetArgs(o),
                   panic |-> TRUE]
             ELSE IF AndErr # NoError
             THEN [err |-> AndErr,
                   text |-> head \o <<Lit(" WHERE ")>> \o AndText,
                   args |-> SetArgs(o) \o AndArgs(CondsBuilt),
                   panic |-> FALSE]
             ELSE [err |-> NoError,
                   text |-> head \o <<Lit(" WHERE ")>> \o AndText \o LimitText,
                   args |-> SetArgs(o) \o AndArgs(CondsBuilt),
                   panic |-> FALSE]

\* Build called by the caller with a new buffer.
UpdateBuild ==
    /\ UpdCanCall
    /\ \E o \in KeyOrders(updValue) :
        LET b == UpdBuild(o)
        IN  updOut' = [call |-> "Build", err |-> b.err, text |-> b.text,
                       args |-> b.args, panic |-> b.panic, sent |-> FALSE]
    /\ UNCHANGED <<updTable, updRaw, updValue, WhereCond, LimitCount, limitN>>
    /\ UNCHANGED <<insertVars, otherVars>>

\* update.go:166-170: a copy of the statement is compiled; getSQL returns
\* the text, or the error.
UpdateGetSQL ==
    /\ UpdCanCall
    /\ \E o \in KeyOrders(updValue) :
        LET b == UpdBuild(o)
        IN  updOut' = [call |-> "GetSQL", err |-> b.err,
                       text |-> IF b.err = NoError \/ b.panic
                                THEN b.text ELSE <<>>,
                       args |-> <<>>, panic |-> b.panic, sent |-> FALSE]
    /\ UNCHANGED <<updTable, updRaw, updValue, WhereCond, LimitCount, limitN>>
    /\ UNCHANGED <<insertVars, otherVars>>

\* update.go:176-178: exec compiles the statement and, when that succeeds,
\* hands it to the runner, which succeeds or fails.
UpdateExecContext ==
    /\ UpdCanCall
    /\ \E o \in KeyOrders(updValue), runnerOk \in BOOLEAN :
        LET b == UpdBuild(o)
            compiled == b.err = NoError /\ ~b.panic
        IN  updOut' = [call |-> "ExecContext",
                       err |-> IF compiled /\ ~runnerOk THEN ErrRunner
                               ELSE b.err,
                       text |-> b.text, args |-> b.args, panic |-> b.panic,
                       sent |-> compiled]
    /\ UNCHANGED <<updTable, updRaw, updValue, WhereCond, LimitCount, limitN>>
    /\ UNCHANGED <<insertVars, otherVars>>

NextUpdate ==
    \/ Set
    \/ Where
    \/ Limit
    \/ UpdateBuild
    \/ UpdateGetSQL
    \/ UpdateExecContext

SpecUpdate == InitUpdate /\ [][NextUpdate]_vars

(***************************************************************************)
(* The event receiver, part_000: ShowSQL and the NullEventReceiver.        *)
(***************************************************************************)
\* The levels ShowSQL is called with (it takes any int).
Levels == {-1, 0, 1, 2, 3}

\* The logPrint arguments ShowSQL is called with: none, one function (which
\* may be nil), two functions (the first is taken).
LogPrints == {<<>>, <<"f">>, <<"g">>, <<NilFunc>>, <<"g", "f">>}

\* The errors the receiver is handed.
Errs == {NoError, ErrRunner}

\* The kvs maps the receiver is handed.
Kvs == {<<>>,
        [k \in {"sql"} |-> "SELECT 1"],
        [k \in {"sql", "time"} |-> IF k = "sql" THEN "SELECT 1" ELSE "12"]}

\* The durations TimingKv is handed, in nanoseconds.
Nanos == {0, 2500000}

\* part_000:35-40
ShowSQL ==
    /\ \E level \in Levels, logPrint \in LogPrints :
        /\ showSQLLevel' = level
        /\ logPrintFunc' = IF Len(logPrint) > 0 THEN logPrint[1]
                           ELSE logPrintFunc
    /\ stdout' = <<>>
    /\ printed' = <<>>
    /\ call' = NoCall
    /\ UNCHANGED <<insertVars, updVars, conVars>>

\* A call on the receiver is made and returns r.
Called(method, err, r) ==
    /\ call' = [method |-> method, err |-> err, ret |-> r]
    /\ UNCHANGED <<showSQLLevel, logPrintFunc>>
    /\ UNCHANGED <<insertVars, updVars, conVars>>

\* The call writes nothing.
Silent ==
    /\ stdout' = <<>>
    /\ printed' = <<>>

\* part_000:78-82 and 98-102: the line goes to logPrintFunc when one is
\* set, and otherwise to standard output behind "[DBR]" and a time stamp.
Log(sqlLog) ==
    IF logPrintFunc # NilFunc
    THEN /\ printed' = <<[fn |-> logPrintFunc, line |-> sqlLog]>>
         /\ stdout' = <<>>
    ELSE /\ stdout' = <<[prefix |-> "[DBR]", line |-> sqlLog]>>
         /\ printed' = <<>>

\* part_000:51, 55, 88: Event, EventKv and Timing do nothing.
Event ==
    /\ \E method \in {"Event", "EventKv", "Timing"} :
        Called(method, NoError, "none")
    /\ Silent

\* part_000:58
EventErr ==
    /\ \E err \in Errs : Called("EventErr", err, err)
    /\ Silent

\* part_000:65-67 and 94-96: kvs["sql"], "" when the key is missing.
SqlOf(kvs) == IF "sql" \in DOMAIN kvs THEN kvs["sql"] ELSE ""

\* part_000:69-76: kvs["time"], "-" when the key is missing.
UseStr(kvs) == IF "time" \in DOMAIN kvs THEN kvs["time"] ELSE "-"

\* TimingKv logs from level 1 on.
TimingLogs_FromOne == showSQLLevel >= 1

\* part_000:63 and 92: the tests of the level.
ErrLogs == showSQLLevel >= 1
TimingLogs == showSQLLevel >= 2

\* part_000:62-85
EventErrKv ==
    /\ \E err \in Errs, kvs \in Kvs :
        /\ Called("EventErrKv", err, err)
        /\ IF ErrLogs
           THEN Log([tag |-> "ERR", ms |-> UseStr(kvs), err |-> err,
                     sql |-> SqlOf(kvs)])
           ELSE Silent

\* part_000:91-104
TimingKv ==
    /\ \E nanoseconds \in Nanos, kvs \in Kvs :
        /\ Called("TimingKv", NoError, "none")
        /\ IF TimingLogs
           THEN Log([tag |-> "OK", ms |-> nanoseconds \div 1000000,
                     err |-> NoError, sql |-> SqlOf(kvs)])
           ELSE Silent

NextReceiver ==
    \/ ShowSQL
    \/ Event
    \/ EventErr
    \/ EventErrKv
    \/ TimingKv

InitReceiver == InsertIdle /\ UpdateIdle /\ ReceiverZero /\ NoConcurrent

SpecReceiver == InitReceiver /\ [][NextReceiver]_vars

(***************************************************************************)
(* Two goroutines call ExecContext on the same InsertStmt without any      *)
(* synchronization. Build's loop over b.Value (insert.go:61-74) and its    *)
(* assignment to b.Value (insert.go:76) are separate steps. The reads and  *)
(* the write of b.Value are a data race: the read of b.Value in the        *)
(* assignment may see the rows as they are or as the goroutine saw them in *)
(* its loop, and slicing past the end of the rows panics.                  *)
(***************************************************************************)
\* The statement's fields and the caller's observations the two goroutines
\* leave alone.
conFrame == <<Table, Column, ReturnColumn, RecordID, rawQuery, rawValue,
              idField, bufText, bufArgs, buildErr, pc, result, ret, orig,
              nbuilt, execOrig, idWrites, pre, getVars, prevExec>>

\* A statement with a table, one column and one to MaxRows pending rows, row
\* i holding the value i, and a batch cap.
InitConcurrent ==
    /\ Table = "users"
    /\ Column = <<"name">>
    /\ \E n \in 1..MaxRows : Value = [i \in 1..n |-> <<i>>]
    /\ RunLen \in {0, 1, 2}
    /\ conOrig = Value
    /\ ReturnColumn = <<>>
    /\ RecordID = NilPtr
    /\ rawQuery = <<>>
    /\ rawValue = <<>>
    /\ idField = 0
    /\ bufText = <<>>
    /\ bufArgs = <<>>
    /\ buildErr = "none"
    /\ pc = "idle"
    /\ result = NoResult
    /\ ret = NoRet
    /\ sent = <<>>
    /\ panicked = FALSE
    /\ orig = <<>>
    /\ nbuilt = 0
    /\ execOrig = <<>>
    /\ idWrites = 0
    /\ pre = <<>>
    /\ sql = NoSql
    /\ ngets = 0
    /\ prevSql = NoSql
    /\ getPre = NoFields
    /\ prevExec = NoPrev
    /\ cpc = [p \in Procs |-> "idle"]
    /\ built = [p \in Procs |-> NoBuilt]
    /\ overlapped = FALSE
    /\ UpdateIdle
    /\ ReceiverZero

\* Goroutine p is inside ExecContext.
Inside(p) == cpc[p] \in {"loop", "read", "cut"}

\* insert.go:244-246: goroutine p enters ExecContext.
ConEnter(p) ==
    /\ ~panicked
    /\ cpc[p] = "idle"
    /\ cpc' = [cpc EXCEPT ![p] = "loop"]
    /\ overlapped' = (overlapped \/ \E q \in Procs \ {p} : Inside(q))
    /\ UNCHANGED <<Value, RunLen, sent, panicked, built, conOrig>>
    /\ UNCHANGED <<conFrame, updVars, rcvVars>>

\* insert.go:247 and 28-74: rows are pending; Build's loop reads them and
\* compiles the chunk.
ConRead(p) ==
    /\ ~panicked
    /\ cpc[p] = "loop"
    /\ Len(Value) > 0
    /\ built' = [built EXCEPT ![p] = [read |-> Value, text |-> BuildText,
                                      args |-> BuildArgs, runnum |-> runnum]]
    /\ RunLen' = EffRunLen
    /\ cpc' = [cpc EXCEPT ![p] = "read"]
    /\ UNCHANGED <<Value, sent, panicked, conOrig, overlapped>>
    /\ UNCHANGED <<conFrame, updVars, rcvVars>>

\* The cut keeps one row of the chunk.
Cut_OneLess(rows, n) == Slice(rows, Max(n - 1, 0), Len(rows))

\* insert.go:76: rows[n:]
Cut(rows, n) == Slice(rows, n, Len(rows))

\* insert.go:76: b.Value = b.Value[runnum:], on the rows as they are or as
\* Build's loop saw them; a runnum past their end panics.
ConCut(p) ==
    /\ ~panicked
    /\ cpc[p] = "read"
    /\ \E rows \in {Value, built[p].read} :
        IF built[p].runnum > Len(rows)
        THEN /\ panicked' = TRUE
             /\ UNCHANGED <<Value, cpc>>
        ELSE /\ Value' = Cut(rows, built[p].runnum)
             /\ cpc' = [cpc EXCEPT ![p] = "cut"]
             /\ UNCHANGED panicked
    /\ UNCHANGED <<RunLen, sent, built, conOrig, overlapped>>
    /\ UNCHANGED <<conFrame, updVars, rcvVars>>

\* insert.go:249-252: the chunk goroutine p compiled is handed to the runner;
\* when the runner fails ExecContext returns.
ConSend(p) ==
    /\ ~panicked
    /\ cpc[p] = "cut"
    /\ \E ok \in BOOLEAN :
        /\ sent' = Append(sent, [text |-> built[p].text,
                                  args |-> built[p].args, ok |-> ok])
        /\ cpc' = [cpc EXCEPT ![p] = IF ok THEN "loop" ELSE "done"]
    /\ UNCHANGED <<Value, RunLen, panicked, built, conOrig, overlapped>>
    /\ UNCHANGED <<conFrame, updVars, rcvVars>>

\* insert.go:247 and 260: no row is pending, ExecContext returns.
ConReturn(p) ==
    /\ ~panicked
    /\ cpc[p] = "loop"
    /\ Len(Value) = 0
    /\ cpc' = [cpc EXCEPT ![p] = "done"]
    /\ UNCHANGED <<Value, RunLen, sent, panicked, built, conOrig, overlapped>>
    /\ UNCHANGED <<conFrame, updVars, rcvVars>>

NextConcurrent ==
    \E p \in Procs :
        \/ ConEnter(p)
        \/ ConRead(p)
        \/ ConCut(p)
        \/ ConSend(p)
        \/ ConReturn(p)

SpecConcurrent == InitConcurrent /\ [][NextConcurrent]_vars

(***************************************************************************)
(* Reading the text a Build call wrote.                                    *)
(***************************************************************************)
RECURSIVE CountTok(_, _)
\* The number of occurrences of token t in a text.
CountTok(text, t) ==
    IF text = <<>> THEN 0
    ELSE (IF Head(text) = t THEN 1 ELSE 0) + CountTok(Tail(text), t)

\* The parenthesized placeholder groups of a text.
GroupsIn(text) == CountTok(text, Lit("("))

\* The latest call was a Build that compiled the INSERT from the statement's
\* table, columns and rows.
BuiltInsert ==
    /\ buildErr = NoError
    /\ rawQuery = <<>>

\* The rows the latest Build call took from the pending list.
RowsCompiled == Len(pre) - Len(Value)

\* q = ceil(a / b) for b >= 1
CeilDiv(a, b) == (a + b - 1) \div b

(***************************************************************************)
(* C1. On a statement with table and columns, no raw override and a cap    *)
(* c >= 1, the N-th of a series of Build calls emits min(c, rows still     *)
(* pending) rows, binds exactly the values of the N-th c-sized slice of    *)
(* the rows pending when the series began, in order, and leaves pending    *)
(* exactly the rows after that slice, so no row is emitted twice.          *)
(***************************************************************************)
C1_NthBuildEmitsNthSlice ==
    (BuiltInsert /\ RunLen >= 1) =>
        LET c == RunLen
            from == Min(c * (nbuilt - 1), Len(orig))
            to == Min(c * nbuilt, Len(orig))
        IN  /\ RowsCompiled = Min(c, Len(pre))
            /\ GroupsIn(bufText) = Min(c, Len(pre))
            /\ pre = Slice(orig, from, Len(orig))
            /\ bufArgs = Flatten(Slice(orig, from, to))
            /\ Value = Slice(orig, to, Len(orig))

\* The second call of a series on three rows with cap 2 emitted the last,
\* partial slice.
C1_Witness ==
    /\ BuiltInsert
    /\ RunLen = 2
    /\ nbuilt = 2
    /\ Len(orig) = 3
    /\ bufArgs = orig[3]
    /\ orig[1] # orig[3]
    /\ Value = <<>>

\* The position of the first token t of a text, 0 when there is none.
IndexOf(text, t) ==
    IF \E i \in 1..Len(text) : text[i] = t
    THEN CHOOSE i \in 1..Len(text) :
            text[i] = t /\ \A j \in 1..(i - 1) : text[j] # t
    ELSE 0

\* The tokens of an INSERT between VALUES and the RETURNING clause (or the
\* end of the text).
ValuesPart(text) ==
    LET from == IndexOf(text, Lit(") VALUES "))
        r == IndexOf(text, Lit(" RETURNING "))
        to == IF r = 0 THEN Len(text) ELSE r - 1
    IN  Slice(text, from, to)

\* part is k groups "(?,...,?)" of n >= 1 placeholders each, joined by ", ".
WellGrouped(part, k, n) ==
    LET g == 2 * n + 1
    IN  /\ Len(part) = IF k = 0 THEN 0 ELSE k * g + (k - 1)
        /\ \A j \in 1..Len(part) :
            LET r == (j - 1) % (g + 1)
            IN  part[j] = IF r = g THEN Lit(", ")
                          ELSE IF r = 0 THEN Lit("(")
                          ELSE IF r = g - 1 THEN Lit(")")
                          ELSE IF r % 2 = 1 THEN placeholder
                          ELSE Lit(",")

(***************************************************************************)
(* C8. A Build call that compiles an INSERT with at least one column and   *)
(* at least one pending row writes len(Column) x (rows compiled by the     *)
(* call) placeholders, as one parenthesized group of len(Column)           *)
(* placeholders per row, and appends the values of exactly those rows,     *)
(* row after row, each in its own order.                                   *)
(***************************************************************************)
C8_PlaceholdersPerRowAndColumn ==
    (BuiltInsert /\ Len(Column) > 0 /\ Len(pre) > 0) =>
        /\ CountPH(bufText) = Len(Column) * RowsCompiled
        /\ WellGrouped(ValuesPart(bufText), RowsCompiled, Len(Column))
        /\ bufArgs = Flatten(Slice(pre, 0, RowsCompiled))

\* Two of three pending rows were compiled for two columns.
C8_Witness ==
    /\ BuiltInsert
    /\ Len(Column) = 2
    /\ Len(pre) = 3
    /\ RowsCompiled = 2
    /\ CountPH(bufText) = 4
    /\ Len(bufArgs) = 4

\* The last 2m tokens of the text are RETURNING and the m quoted columns
\* joined by ",".
EndsWithReturning(text, cols) ==
    LET m == Len(cols)
        clause == Slice(text, Len(text) - 2 * m, Len(text))
    IN  /\ Len(text) >= 2 * m
        /\ clause[1] = Lit(" RETURNING ")
        /\ \A i \in 1..m : clause[2 * i] = QuoteIdent(cols[i])
        /\ \A i \in 1..(m - 1) : clause[2 * i + 1] = Lit(",")

(***************************************************************************)
(* C10. With RETURNING columns configured, the text of every Build call    *)
(* that compiles the INSERT ends with one RETURNING clause listing exactly *)
(* the configured columns, quoted, in the configured order; with none      *)
(* configured the text has no RETURNING clause.                            *)
(***************************************************************************)
C10_EveryChunkReturning ==
    BuiltInsert =>
        IF Len(ReturnColumn) > 0
        THEN /\ EndsWithReturning(bufText, ReturnColumn)
             /\ CountTok(bufText, Lit(" RETURNING ")) = 1
        ELSE CountTok(bufText, Lit(" RETURNING ")) = 0

\* The second of three chunks, neither the first nor the last, was compiled
\* with two RETURNING columns.
C10_Witness ==
    /\ BuiltInsert
    /\ ReturnColumn = <<"name", "id">>
    /\ nbuilt = 2
    /\ Len(orig) = 3
    /\ RowsCompiled = 1
    /\ Len(Value) = 1

(***************************************************************************)
(* C7. As claimed: after any configuration calls and a successful Build,   *)
(* the text holds as many placeholders as the buffer holds arguments.      *)
(***************************************************************************)
C7_PlaceholdersMatchArgs ==
    buildErr = NoError => CountPH(bufText) = Len(bufArgs)

\* Every row the latest Build call compiled holds len(Column) values.
RowsAligned == \A i \in 1..RowsCompiled : Len(pre[i]) = Len(Column)

(***************************************************************************)
(* C7, amended. After a successful Build whose compiled rows each hold     *)
(* exactly len(Column) values, the text holds as many placeholders as the  *)
(* buffer holds arguments.                                                 *)
(***************************************************************************)
C7_PlaceholdersMatchAlignedArgs ==
    (BuiltInsert /\ RowsAligned) => CountPH(bufText) = Len(bufArgs)

\* Two rows of two values each were compiled for two columns.
C7_Witness ==
    /\ BuiltInsert
    /\ RowsAligned
    /\ Len(Column) = 2
    /\ RowsCompiled = 2
    /\ Len(bufArgs) = 4

(***************************************************************************)
(* Reading what ExecContext handed to the runner.                          *)
(***************************************************************************)
\* ExecContext is running, or has returned a nil error.
NoFailureSoFar == pc = "loop" \/ ret.err = NoError

\* The rows the latest ExecContext took from the pending list.
RowsTaken == Len(execOrig) - Len(Value)

RECURSIVE SentArgs(_)
\* The arguments of the statements handed to the runner, one after another.
SentArgs(s) == IF s = <<>> THEN <<>> ELSE Head(s).args \o SentArgs(Tail(s))

(***************************************************************************)
(* C2. While the runner succeeds, ExecContext on a statement that compiles *)
(* (table, columns, no raw override), with R >= 1 pending rows and cap     *)
(* c >= 1, has handed the runner the first c-sized slices of the rows, one *)
(* per call, in order, and holds the rest as pending; when it returns it   *)
(* has made ceil(R/c) runner calls, no row is pending, and it returns the  *)
(* result of the last call with a nil error.                               *)
(***************************************************************************)
C2_ExecSendsEveryRowOnce ==
    (NoFailureSoFar /\ Compiles /\ Len(execOrig) >= 1 /\ EffRunLen >= 1) =>
        LET c == EffRunLen
            R == Len(execOrig)
        IN  /\ \A i \in 1..Len(sent) :
                /\ sent[i].ok
                /\ sent[i].args =
                       Flatten(Slice(execOrig, c * (i - 1), Min(c * i, R)))
            /\ Value = Slice(execOrig, Min(c * Len(sent), R), R)
            /\ Len(sent) <= CeilDiv(R, c)
            /\ pc = "idle" =>
                /\ Len(sent) = CeilDiv(R, c)
                /\ SentArgs(sent) = Flatten(execOrig)
                /\ Value = <<>>
                /\ ret.result = result
                /\ ret.result.n = Len(sent)
                /\ ret.err = NoError

\* Three rows with cap 2 were executed as two runner calls, and ExecContext
\* returned the result of the second.
C2_Witness ==
    /\ pc = "idle"
    /\ ret.err = NoError
    /\ Compiles
    /\ Len(execOrig) = 3
    /\ RunLen = 2
    /\ Len(sent) = 2
    /\ ret.result.n = 2
    /\ execOrig[1] # execOrig[2]

(***************************************************************************)
(* C3. A runner failure is the last runner call of its ExecContext:        *)
(* ExecContext has returned that error with a nil result, and the pending  *)
(* list holds exactly the rows after those of the chunks handed to the     *)
(* runner.                                                                 *)
(***************************************************************************)
C3_FailureStopsExecution ==
    \A i \in 1..Len(sent) :
        ~sent[i].ok =>
            /\ i = Len(sent)
            /\ pc = "idle"
            /\ ret = [result |-> NoResult, err |-> ErrRunner]
            /\ Value = Slice(execOrig, RowsTaken, Len(execOrig))
            /\ Compiles => SentArgs(sent) = Flatten(Slice(execOrig, 0, RowsTaken))

\* The second of three chunks failed: the third row was never sent and is
\* still pending.
C3_Witness ==
    /\ Len(execOrig) = 3
    /\ Len(sent) = 2
    /\ sent[1].ok
    /\ ~sent[2].ok
    /\ ret.err = ErrRunner
    /\ Value = <<execOrig[3]>>
    /\ Compiles

(***************************************************************************)
(* C5. As claimed: every pass of ExecContext's loop in which the runner    *)
(* succeeds leaves fewer rows pending than it found, whatever the batch    *)
(* cap and with or without a raw override, so the loop ends.               *)
(***************************************************************************)
C5_EveryPassConsumesRows ==
    [][(pc = "loop" /\ pc' = "loop" /\ Len(sent') = Len(sent) + 1)
          => Len(Value') < Len(Value)]_vars

(***************************************************************************)
(* C6. Within one ExecContext the caller's field is written at most once:  *)
(* by the first chunk, when it succeeds with the binding set and           *)
(* LastInsertId gives an id, and with that id. Every successful chunk      *)
(* leaves the binding cleared, also when LastInsertId fails (the field     *)
(* then keeps its value), and no other step changes the field.             *)
(***************************************************************************)
C6_SlotWrittenOnceByFirstChunk ==
    [][LET succeeded == /\ pc = "loop"
                        /\ Len(sent') = Len(sent) + 1
                        /\ sent'[Len(sent')].ok
       IN  /\ succeeded =>
                /\ RecordID' = NilPtr
                /\ RecordID # NilPtr => Len(sent) = 0
                /\ idField' = IF RecordID # NilPtr /\ result'.id # NoId
                              THEN result'.id
                              ELSE idField
           /\ ~succeeded => idField' = idField
           /\ idWrites' <= 1]_vars

\* Two chunks succeeded with the binding set: the field holds the id of the
\* first one, the second reported another id.
C6_Witness ==
    /\ Len(sent) = 2
    /\ sent[2].ok
    /\ idWrites = 1
    /\ idField = GeneratedId(1)
    /\ result.id = GeneratedId(2)
    /\ RecordID = NilPtr

\* The statement has no raw override and lacks its table or its columns.
Misconfigured == rawQuery = <<>> /\ (Table = "" \/ Len(Column) = 0)
ConfigError ==
    IF Table = "" THEN ErrTableNotSpecified ELSE ErrColumnNotSpecified

(***************************************************************************)
(* C9. Without raw override, Build returns ErrTableNotSpecified when Table *)
(* is empty and otherwise ErrColumnNotSpecified when Column is empty,      *)
(* writes nothing to the buffer and takes no pending row; ExecContext on   *)
(* such a statement with pending rows returns that error with a nil        *)
(* result, and the runner is handed nothing.                               *)
(***************************************************************************)
C9_ConfigErrorsReturned ==
    Misconfigured =>
        /\ buildErr # "none" =>
            /\ buildErr = ConfigError
            /\ bufText = <<>>
            /\ bufArgs = <<>>
            /\ Value = pre
        /\ pc = "loop" => sent = <<>>
        /\ (pc = "idle" /\ Len(execOrig) > 0) =>
            /\ ret = [result |-> NoResult, err |-> ConfigError]
            /\ sent = <<>>
            /\ Value = execOrig

\* ExecContext on a statement with a table, no columns and two pending rows
\* returned ErrColumnNotSpecified.
C9_Witness ==
    /\ Misconfigured
    /\ Table # ""
    /\ pc = "idle"
    /\ Len(execOrig) = 2
    /\ ret.err = ErrColumnNotSpecified
    /\ Len(Value) = 2

(***************************************************************************)
(* C4. As claimed: Build, GetSQL and ExecContext on an UPDATE with a       *)
(* table, at least one Set value and no condition return an error, do not  *)
(* panic, and leave no SQL text in the buffer.                             *)
(***************************************************************************)
C4_NoConditionReturnsError ==
    (/\ updOut.call # "none"
     /\ updRaw = <<>>
     /\ updTable # ""
     /\ DOMAIN updValue # {}
     /\ Len(WhereCond) = 0) =>
        /\ ~updOut.panic
        /\ updOut.err \notin {"none", NoError}
        /\ updOut.text = <<>>
        /\ ~updOut.sent

\* The lines the latest call on the receiver wrote.
LinesWritten == Len(stdout) + Len(printed)

(***************************************************************************)
(* C11. A call on the NullEventReceiver writes at most one line. At level  *)
(* 0 no call writes; at level 1 EventErrKv writes one line and TimingKv    *)
(* none; at level 2 EventErrKv and TimingKv write one line each; Event,    *)
(* EventKv, EventErr and Timing never write. When logPrintFunc is set the  *)
(* line is handed to it and standard output gets nothing. EventErr and     *)
(* EventErrKv return the error they were given.                            *)
(***************************************************************************)
C11_ReceiverFollowsLevel ==
    call.method # "none" =>
        /\ showSQLLevel = 0 => LinesWritten = 0
        /\ showSQLLevel = 1 =>
            LinesWritten = IF call.method = "EventErrKv" THEN 1 ELSE 0
        /\ showSQLLevel = 2 =>
            LinesWritten = IF call.method \in {"EventErrKv", "TimingKv"}
                           THEN 1 ELSE 0
        /\ call.method \notin {"EventErrKv", "TimingKv"} => LinesWritten = 0
        /\ LinesWritten <= 1
        /\ logPrintFunc # NilFunc =>
            /\ stdout = <<>>
            /\ \A i \in 1..Len(printed) : printed[i].fn = logPrintFunc
        /\ logPrintFunc = NilFunc => printed = <<>>
        /\ call.method \in {"EventErr", "EventErrKv"} => call.ret = call.err

\* At level 1 with function f set, EventErrKv was handed an error, gave its
\* line to f and not to standard output, and returned the error.
C11_Witness ==
    /\ showSQLLevel = 1
    /\ logPrintFunc = "f"
    /\ call = [method |-> "EventErrKv", err |-> ErrRunner, ret |-> ErrRunner]
    /\ Len(printed) = 1
    /\ printed[1].fn = "f"
    /\ printed[1].line.err = ErrRunner
    /\ stdout = <<>>

\* GetSQL calls were made and ExecContext has not been entered since.
AfterGetSQL == ngets > 0 /\ pc = "idle" /\ ret = NoRet

\* GetSQL calls were made, then ExecContext was entered.
ExecAfterGetSQL == ngets > 0 /\ (pc = "loop" \/ ret # NoRet)

(***************************************************************************)
(* C12. After one or more GetSQL calls the statement's pending rows,       *)
(* columns, RecordID and RunLen are what they were before the first of     *)
(* them; the second of two consecutive calls returns what the first        *)
(* returned; on a statement that compiles with cap c >= 1 the text is that *)
(* of the first chunk, the first min(c, R) pending rows. An ExecContext    *)
(* that follows starts from all the rows, and on such a statement with a   *)
(* succeeding runner hands every one of them to the runner.                *)
(***************************************************************************)
C12_GetSQLNonDestructive ==
    /\ AfterGetSQL =>
        /\ Fields = getPre
        /\ ngets >= 2 => sql = prevSql
        /\ (Compiles /\ EffRunLen >= 1) =>
            /\ sql.err = NoError
            /\ GroupsIn(sql.text) = Min(EffRunLen, Len(Value))
            /\ sql.args = Flatten(Slice(Value, 0, Min(EffRunLen, Len(Value))))
    /\ ExecAfterGetSQL =>
        /\ execOrig = getPre.Value
        /\ Column = getPre.Column
        /\ (Len(sent) = 0 /\ pc = "loop") => RecordID = getPre.RecordID
        /\ (pc = "idle" /\ ret.err = NoError /\ Compiles /\ EffRunLen >= 1) =>
            /\ SentArgs(sent) = Flatten(getPre.Value)
            /\ Value = <<>>

\* Two GetSQL calls on three rows with cap 2 and a bound RecordID returned
\* the first chunk, then ExecContext sent the three rows in two chunks.
C12_Witness ==
    /\ ngets = 2
    /\ sql = prevSql
    /\ Len(getPre.Value) = 3
    /\ getPre.RecordID = Bound
    /\ RunLen = 2
    /\ GroupsIn(sql.text) = 2
    /\ pc = "idle"
    /\ ret.err = NoError
    /\ Len(sent) = 2
    /\ SentArgs(sent) = Flatten(getPre.Value)

\* The latest ExecContext has returned.
ExecReturned == pc = "idle" /\ ret # NoRet

(***************************************************************************)
(* C13. As claimed: ExecContext on a statement with a raw override hands   *)
(* the runner at most one statement, and when it has returned it has       *)
(* handed the runner exactly one, the raw text with the raw arguments,     *)
(* whatever the number of pending rows.                                    *)
(***************************************************************************)
C13_RawExecutedOnce ==
    rawQuery # <<>> =>
        /\ Len(sent) <= 1
        /\ ExecReturned =>
            /\ Len(sent) = 1
            /\ sent[1].text = rawQuery
            /\ sent[1].args = rawValue

(***************************************************************************)
(* C14. When ExecContext is called again on a statement that compiles with *)
(* cap c >= 1, right after ExecContext returned the runner's error for     *)
(* chunk K, it starts from exactly the rows after chunk K and hands the    *)
(* runner chunks K+1, K+2, ... of the rows the first call started from;    *)
(* the rows handed to the runner by the two calls and the rows still       *)
(* pending are those rows, each once, so no row of chunk K is sent again.  *)
(***************************************************************************)
C14_ResumesAfterFailedChunk ==
    (prevExec # NoPrev /\ Compiles /\ EffRunLen >= 1) =>
        LET c == EffRunLen
            K == Len(prevExec.sent)
            all == prevExec.orig
            R == Len(all)
        IN  /\ prevExec.err = ErrRunner
            /\ ~prevExec.sent[K].ok
            /\ execOrig = Slice(all, Min(c * K, R), R)
            /\ \A i \in 1..Len(sent) :
                sent[i].args =
                    Flatten(Slice(all, Min(c * (K + i - 1), R),
                                  Min(c * (K + i), R)))
            /\ SentArgs(prevExec.sent) \o SentArgs(sent) \o Flatten(Value)
                   = Flatten(all)

\* Of three rows with cap 1 the second chunk failed; the second ExecContext
\* sent the third row alone and returned without error.
C14_Witness ==
    /\ prevExec # NoPrev
    /\ Compiles
    /\ RunLen = 1
    /\ Len(prevExec.orig) = 3
    /\ Len(prevExec.sent) = 2
    /\ prevExec.orig[2] # prevExec.orig[3]
    /\ Len(sent) = 1
    /\ sent[1].args = prevExec.orig[3]
    /\ pc = "idle"
    /\ ret.err = NoError

\* The latest call was a Build that compiled the UPDATE from the
\* statement's table, values and conditions.
BuiltUpdate ==
    /\ updOut.call = "Build"
    /\ updOut.err = NoError
    /\ updRaw = <<>>

(***************************************************************************)
(* C15. As claimed: the text of a successfully compiled UPDATE ends with   *)
(* LIMIT n when Limit(n) was called, for every n of Limit's unsigned       *)
(* argument type, and holds no LIMIT clause when Limit was never called.   *)
(***************************************************************************)
C15_LimitClauseForEveryN ==
    BuiltUpdate =>
        LET text == updOut.text
        IN  IF limitN = NeverLimited
            THEN CountTok(text, Lit(" LIMIT ")) = 0
            ELSE /\ Len(text) >= 2
                 /\ text[Len(text) - 1] = Lit(" LIMIT ")
                 /\ text[Len(text)] = Num(limitN)

\* The error of a raw fragment whose Build fails.
ErrFragment == "ErrFragment"

\* A SET value of the statement is a raw fragment whose Build fails.
HasFailingFragment ==
    \E c \in DOMAIN updValue : updValue[c].kind = "raw" /\ updValue[c].fails

(***************************************************************************)
(* C16. As claimed: Build on an UPDATE with a table, SET values and        *)
(* conditions returns the error of the first nested builder that fails: a  *)
(* failing raw fragment among the SET values makes Build return that       *)
(* fragment's error before anything of the WHERE clause is written, and    *)
(* otherwise a failing condition makes Build return the condition's error. *)
(***************************************************************************)
C16_NestedErrorsPropagate ==
    (/\ updOut.call = "Build"
     /\ updRaw = <<>>
     /\ updTable # ""
     /\ DOMAIN updValue # {}
     /\ Len(WhereCond) > 0) =>
        IF HasFailingFragment
        THEN /\ updOut.err = ErrFragment
             /\ CountTok(updOut.text, Lit(" WHERE ")) = 0
        ELSE IF AndErr # NoError
        THEN updOut.err = AndErr
        ELSE updOut.err = NoError

(***************************************************************************)
(* C17. As claimed: on a statement populated through Pair only, whatever   *)
(* Build and ExecContext calls are made between the Pair calls, at most    *)
(* one row is pending and that row holds exactly len(Column) values.       *)
(***************************************************************************)
C17_PairKeepsOneAlignedRow ==
    /\ Len(Value) <= 1
    /\ Len(Value) = 1 => Len(Value[1]) = Len(Column)

RECURSIVE Occurrences(_, _)
\* How often the value v is among the arguments args.
Occurrences(args, v) ==
    IF args = <<>> THEN 0
    ELSE (IF Head(args) = v THEN 1 ELSE 0) + Occurrences(Tail(args), v)

\* No goroutine is between Build's loop and the runner call.
Quiescent == \A p \in Procs : cpc[p] \in {"idle", "loop", "done"}

\* Row i of the rows pending at the start was handed to the runner twice or
\* more.
SentTwice(i) == Occurrences(SentArgs(sent), i) >= 2

\* Row i was never handed to the runner and is not pending any more.
Skipped(i) ==
    /\ Occurrences(SentArgs(sent), i) = 0
    /\ Occurrences(Flatten(Value), i) = 0

(***************************************************************************)
(* C18. When the two ExecContext calls on the statement are serialized     *)
(* (never inside ExecContext at the same time), no call panics, and        *)
(* whenever no call is between compiling a chunk and handing it to the     *)
(* runner, the rows handed to the runner followed by the rows pending are  *)
(* the rows pending at the start, each once and in order: no row is sent   *)
(* twice and none is skipped. Overlapping calls can send a row twice and  *)
(* skip another: C18_Witness is such a state.                              *)
(***************************************************************************)
C18_SerializedExactlyOnce ==
    ~overlapped =>
        /\ ~panicked
        /\ Quiescent =>
            /\ SentArgs(sent) \o Flatten(Value) = Flatten(conOrig)
            /\ \A i \in 1..Len(conOrig) : ~SentTwice(i) /\ ~Skipped(i)

\* The two calls overlapped on two rows with cap 1 and both have returned:
\* row 1 was handed to the runner twice, and row 2 never, though no row is
\* pending.
C18_Witness ==
    /\ overlapped
    /\ ~panicked
    /\ \A p \in Procs : cpc[p] = "done"
    /\ Len(conOrig) = 2
    /\ RunLen = 1
    /\ SentTwice(1)
    /\ Skipped(2)
    /\ Value = <<>>

====
